---- MODULE Spec2Model ----
(***************************************************************************)
(* Creator Insight Portal API (src/main.py): the request handlers as a     *)
(* state machine.  Strings the code splits, formats or parses are          *)
(* sequences of one-character strings; the clock counts half seconds so    *)
(* that int(datetime.utcnow().timestamp()) is a real truncation.           *)
(***************************************************************************)
EXTENDS Integers, Sequences, FiniteSets, TLC

VARIABLES now, dbMode, courses, enrollments, issued, points, updates, req, resp, user

vars == <<now, dbMode, courses, enrollments, issued, points, updates, req, resp, user>>

(* ------------------------------ bounds --------------------------------- *)

\* longest email typed into the login form
MaxEmailLen == 2
\* the clock visits the instants within Window ticks of 0 and of the lifetime
Window == 2
\* most documents in the course collection
MaxDocs == 2
\* most update requests in one behaviour
MaxUpdates == 5
\* the parametrised point total ranges over -BelowZero .. TopPoints
BelowZero == 3
TopPoints == 10003

(* ------------------------- program constants --------------------------- *)

\* the clock's resolution: ticks per second (utcnow() carries a fraction)
TicksPerSec == 2
\* timedelta(hours=1), in seconds
TokenLifetime == 3600
\* TokenResponse.expires_in
ExpiresIn == 3600
\* the literal of get_creator_level and get_progress_to_next_level
HardCodedPoints == 1860
DefaultCourses == 8
DefaultEnrollments == 1240
ActiveFloor == 500

(* ------------------------------ strings -------------------------------- *)

TOKEN_PREFIX == <<"t", "o", "k", "e", "n">>

Delim == <<":", ":">>

FAKE_SECRET ==
    <<"c","r","e","a","t","o","r","-","i","n","s","i","g","h","t","-",
      "d","e","m","o","-","s","e","c","r","e","t">>

DigitChars == <<"0", "1", "2", "3", "4", "5", "6", "7", "8", "9">>

\* str(n) for an integer n, as the f-string formats it
RECURSIVE Str(_)
Str(n) ==
    IF n < 0 THEN <<"-">> \o Str(0 - n)
    ELSE IF n < 10 THEN <<DigitChars[n + 1]>>
    ELSE Str(n \div 10) \o <<DigitChars[(n % 10) + 1]>>

IsDigit(c) == \E i \in 1..10 : DigitChars[i] = c

DigitVal(c) == (CHOOSE i \in 1..10 : DigitChars[i] = c) - 1

RECURSIVE DigitsVal(_)
DigitsVal(s) ==
    IF s = <<>> THEN 0
    ELSE 10 * DigitsVal(SubSeq(s, 1, Len(s) - 1)) + DigitVal(s[Len(s)])

RECURSIVE Strip(_)
Strip(s) ==
    IF s = <<>> THEN s
    ELSE IF s[1] = " " THEN Strip(Tail(s))
    ELSE IF s[Len(s)] = " " THEN Strip(SubSeq(s, 1, Len(s) - 1))
    ELSE s

\* int(s): surrounding blanks stripped, an optional sign, then one or more
\* decimal digits; anything else raises ValueError (ok = FALSE)
ParseInt(s) ==
    LET t == Strip(s)
        signed == t # <<>> /\ t[1] \in {"+", "-"}
        d == IF signed THEN Tail(t) ELSE t
    IN  IF d # <<>> /\ \A i \in 1..Len(d) : IsDigit(d[i])
        THEN [ok |-> TRUE,
              val |-> IF signed /\ t[1] = "-" THEN 0 - DigitsVal(d) ELSE DigitsVal(d)]
        ELSE [ok |-> FALSE, val |-> 0]

\* the first index at which sep occurs in s, 0 when it does not
Find(s, sep) ==
    LET hits == {j \in 1..(Len(s) - Len(sep) + 1) : SubSeq(s, j, j + Len(sep) - 1) = sep}
    IN  IF hits = {} THEN 0 ELSE CHOOSE j \in hits : \A k \in hits : j <= k

\* s.split(sep): left to right, non-overlapping
RECURSIVE Split(_, _)
Split(s, sep) ==
    LET j == Find(s, sep)
    IN  IF j = 0 THEN <<s>>
        ELSE <<SubSeq(s, 1, j - 1)>> \o Split(SubSeq(s, j + Len(sep), Len(s)), sep)

(* ------------------------------- auth ---------------------------------- *)

None == [some |-> FALSE, email |-> <<>>]

Some(e) == [some |-> TRUE, email |-> e]

NoCreds == [present |-> FALSE, credentials |-> <<>>]

Bearer(t) == [present |-> TRUE, credentials |-> t]

\* int(datetime.utcnow().timestamp()) at clock reading t
NowSec(t) == t \div TicksPerSec

create_fake_token(email, t) ==
    LET exp == NowSec(t) + TokenLifetime
    IN  TOKEN_PREFIX \o Delim \o email \o Delim \o Str(exp) \o Delim \o FAKE_SECRET

\* get_current_user without the expiry test
CurrentUserNoExpiry(creds, t) ==
    IF ~creds.present THEN None
    ELSE LET parts == Split(creds.credentials, Delim)
         IN  IF Len(parts) # 4 THEN None
             ELSE IF parts[4] # FAKE_SECRET THEN None
             ELSE LET exp == ParseInt(parts[3])
                  IN  IF ~exp.ok THEN None ELSE Some(parts[2])

get_current_user(creds, t) ==
    IF ~creds.present THEN None
    ELSE LET parts == Split(creds.credentials, Delim)
         IN  IF Len(parts) # 4 THEN None
             ELSE IF parts[4] # FAKE_SECRET THEN None
             ELSE LET exp == ParseInt(parts[3])
                  IN  IF ~exp.ok THEN None
                      ELSE IF exp.val < NowSec(t) THEN None
                      ELSE Some(parts[2])

\* POST /auth/login: the response and the token the client then holds
LoginResponse(email, password, t) ==
    IF email = <<>> \/ password = <<>>
    THEN [endpoint |-> "login", status |-> 400,
          body |-> [detail |-> "Email and password required"]]
    ELSE [endpoint |-> "login", status |-> 200,
          body |-> [access_token |-> create_fake_token(email, t),
                    token_type |-> "bearer", expires_in |-> ExpiresIn]]

(* ------------------------------- store --------------------------------- *)

\* a key the stored document does not have / a value that is not a string
Missing == "<missing>"
NonStr == "<non-str>"

Ok(v) == [ok |-> TRUE, val |-> v]

Raised == [ok |-> FALSE, val |-> <<>>]

\* `if db`: the imported handle is None when no store is configured
DbTruthy == dbMode # "absent"

get_documents(collection) ==
    IF dbMode = "raising" THEN Raised ELSE Ok(courses)

count_documents(collection) ==
    IF dbMode = "raising" THEN Raised
    ELSE IF collection = "course" THEN Ok(Len(courses))
    ELSE Ok(enrollments)

find_one(course_id) ==
    IF dbMode = "raising" THEN Raised
    ELSE LET hits == {i \in 1..Len(courses) : courses[i]._id = course_id}
         IN  IF hits = {} THEN Ok([found |-> FALSE])
             ELSE Ok([found |-> TRUE,
                      doc |-> courses[CHOOSE i \in hits : \A k \in hits : i <= k]])

\* _safe_count with the try/except left out: the exception propagates
SafeCountUnguarded(collection) ==
    IF ~DbTruthy THEN Ok(0) ELSE count_documents(collection)

_safe_count(collection) ==
    IF ~DbTruthy THEN Ok(0)
    ELSE LET r == count_documents(collection)
         IN  IF r.ok THEN r ELSE Ok(0)

Max(a, b) == IF a >= b THEN a ELSE b

Min(a, b) == IF a <= b THEN a ELSE b

\* int(n * 0.6) for a count n >= 0
SixTenths(n) == (n * 6) \div 10

\* `x or d`
OrElse(x, d) == IF x = 0 THEN d ELSE x

SummaryResponse(tc, te) ==
    IF ~tc.ok \/ ~te.ok
    THEN [endpoint |-> "summary", status |-> 500, body |-> [detail |-> "error"]]
    ELSE LET total_courses == OrElse(tc.val, DefaultCourses)
             total_enrollments == OrElse(te.val, DefaultEnrollments)
             active_learners == Max(SixTenths(total_enrollments), ActiveFloor)
         IN  [endpoint |-> "summary", status |-> 200,
              body |-> [totalCourses |-> total_courses,
                        totalEnrollments |-> total_enrollments,
                        activeLearners |-> active_learners]]

\* CourseItem(id=str(d.get("_id")), title=d.get("title", "Untitled"),
\*            category=d.get("category", "General")): validation raises on a
\* title or category that is not a string
CourseItemValid(d) == d.title # NonStr /\ d.category # NonStr

CourseItem(d) ==
    [id |-> d._id,
     title |-> IF d.title = Missing THEN "Untitled" ELSE d.title,
     category |-> IF d.category = Missing THEN "General" ELSE d.category]

DemoCourses ==
    << [id |-> "c1", title |-> "Mastering Python", category |-> "Programming"],
       [id |-> "c2", title |-> "Data Visualization", category |-> "Analytics"],
       [id |-> "c3", title |-> "Teaching with AI", category |-> "Education"] >>

\* the for loop of get_courses from document i on: the items appended so
\* far and whether the loop ran to the end
RECURSIVE AppendItems(_, _, _)
AppendItems(docs, i, items) ==
    IF i > Len(docs) THEN [ok |-> TRUE, items |-> items]
    ELSE IF ~CourseItemValid(docs[i]) THEN [ok |-> FALSE, items |-> items]
    ELSE AppendItems(docs, i + 1, Append(items, CourseItem(docs[i])))

\* get_courses whose except clause does not reset items
CoursesBodyKeepsPartial ==
    LET docs == IF DbTruthy THEN get_documents("course") ELSE Ok(<<>>)
        loop == IF docs.ok THEN AppendItems(docs.val, 1, <<>>)
                ELSE [ok |-> FALSE, items |-> <<>>]
        items == loop.items
    IN  IF items = <<>> THEN DemoCourses ELSE items

CoursesBody ==
    LET docs == IF DbTruthy THEN get_documents("course") ELSE Ok(<<>>)
        loop == IF docs.ok THEN AppendItems(docs.val, 1, <<>>)
                ELSE [ok |-> FALSE, items |-> <<>>]
        items == IF loop.ok THEN loop.items ELSE <<>>
    IN  IF items = <<>> THEN DemoCourses ELSE items

CourseBody(course_id) ==
    LET r == IF DbTruthy THEN find_one(course_id) ELSE Ok([found |-> FALSE])
        doc == IF r.ok THEN r.val ELSE [found |-> FALSE]
    IN  IF doc.found THEN doc.doc
        ELSE [id |-> course_id, title |-> "Course", category |-> "General"]

(* ---------------------------- achievements ----------------------------- *)

thresholds ==
    << [lvl |-> "Bronze", th |-> 0], [lvl |-> "Silver", th |-> 2000],
       [lvl |-> "Gold", th |-> 5000], [lvl |-> "Platinum", th |-> 10000] >>

\* the cascade with > where the code has >=
CreatorLevelStrict(pts) ==
    LET l0 == "Bronze"
        l1 == IF pts > 2000 THEN "Silver" ELSE l0
        l2 == IF pts > 5000 THEN "Gold" ELSE l1
        l3 == IF pts > 10000 THEN "Platinum" ELSE l2
    IN  l3

\* the cascade of get_creator_level on a point total
creator_level(pts) ==
    LET l0 == "Bronze"
        l1 == IF pts >= 2000 THEN "Silver" ELSE l0
        l2 == IF pts >= 5000 THEN "Gold" ELSE l1
        l3 == IF pts >= 10000 THEN "Platinum" ELSE l2
    IN  l3

\* the for loop of get_progress_to_next_level from entry i on
RECURSIVE NextFrom(_, _)
NextFrom(pts, i) ==
    IF i > Len(thresholds) THEN [lvl |-> "Silver", th |-> 2000]
    ELSE IF pts < thresholds[i].th THEN thresholds[i]
    ELSE NextFrom(pts, i + 1)

\* the loop with <= where the code has <
RECURSIVE NextFromInclusive(_, _)
NextFromInclusive(pts, i) ==
    IF i > Len(thresholds) THEN [lvl |-> "Silver", th |-> 2000]
    ELSE IF pts <= thresholds[i].th THEN thresholds[i]
    ELSE NextFromInclusive(pts, i + 1)

\* num / den rounded to the nearest integer, ties to even (den > 0)
RoundHalfEven(num, den) ==
    LET q == num \div den
        r == num % den
    IN  IF 2 * r < den THEN q
        ELSE IF 2 * r > den THEN q + 1
        ELSE IF q % 2 = 0 THEN q ELSE q + 1

\* the handler over the loop with <=
ProgressInclusive(pts) ==
    LET nxt == NextFromInclusive(pts, 1)
    IN  [points |-> pts,
         nextLevel |-> nxt.lvl,
         progressPercent |->
             IF nxt.th # 0 THEN Min(10000, RoundHalfEven(pts * 100 * 100, nxt.th))
             ELSE 10000]

\* progressPercent in hundredths of a percent:
\* min(100.0, round(points / next_threshold * 100, 2)) if next_threshold else 100.0
progress_to_next_level(pts) ==
    LET nxt == NextFrom(pts, 1)
    IN  [points |-> pts,
         nextLevel |-> nxt.lvl,
         progressPercent |->
             IF nxt.th # 0 THEN Min(10000, RoundHalfEven(pts * 100 * 100, nxt.th))
             ELSE 10000]

(* ------------------------------ inputs --------------------------------- *)

SeqsUpTo(S, n) == UNION {[1..k -> S] : k \in 0..n}

EmailAlphabet == {"a", ":"}

Emails == SeqsUpTo(EmailAlphabet, MaxEmailLen)

Passwords == {<<>>, <<"p">>}

\* the clock readings of a behaviour: around the start and around the
\* moment a token issued at the start runs out
Instants ==
    (0..Window) \cup
    {TokenLifetime * TicksPerSec + k : k \in 0..(Window + TicksPerSec)}

Docs ==
    { [_id |-> "m1", title |-> "Py", category |-> "Prog"],
      [_id |-> "m2", title |-> Missing, category |-> Missing],
      [_id |-> "m3", title |-> NonStr, category |-> "Prog"] }

EnrollCounts == {0, 1, 500, 1240}

CourseIds == {"m1", "zz"}

CreatorIds == {"<none>", "u1", "u2", "u3"}

Deltas == {-100, 0, 140, 3200, 10000}

\* what a client can put in the Authorization header: nothing, the token
\* the last login issued, a token assembled from fields of its choosing,
\* or a string that is no token at all
NoExpiry == [some |-> FALSE, val |-> 0]

Unauthenticated ==
    [source |-> "none", creds |-> NoCreds, email |-> <<>>, issuedAt |-> 0,
     expiry |-> NoExpiry, secretOk |-> FALSE]

IssuedToken ==
    [source |-> "issued", creds |-> Bearer(issued.token), email |-> issued.email,
     issuedAt |-> issued.at,
     expiry |-> [some |-> TRUE, val |-> NowSec(issued.at) + TokenLifetime],
     secretOk |-> TRUE]

ForgedExpiries == {0, 1, TokenLifetime, TokenLifetime + 1}

ForgedSecrets == {FAKE_SECRET, <<"x">>}

Assemble(email, expStr, secret) ==
    TOKEN_PREFIX \o Delim \o email \o Delim \o expStr \o Delim \o secret

ForgedTokens ==
    { [source |-> "forged", creds |-> Bearer(Assemble(<<"a">>, Str(e), s)),
       email |-> <<"a">>, issuedAt |-> 0, expiry |-> [some |-> TRUE, val |-> e],
       secretOk |-> (s = FAKE_SECRET)] : e \in ForgedExpiries, s \in ForgedSecrets }

GarbageTokens ==
    { [source |-> "garbage", creds |-> Bearer(t), email |-> <<>>, issuedAt |-> 0,
       expiry |-> NoExpiry, secretOk |-> FALSE] :
      t \in {<<>>, <<"x">>, Assemble(<<"a">>, <<"x">>, FAKE_SECRET),
             TOKEN_PREFIX \o Delim \o Str(0) \o Delim \o FAKE_SECRET} }

Presented ==
    {Unauthenticated} \cup (IF issued.some THEN {IssuedToken} ELSE {})
        \cup ForgedTokens \cup GarbageTokens

(* ------------------------------ actions -------------------------------- *)

Idle == [endpoint |-> "none"]

NotIssued == [some |-> FALSE, email |-> <<>>, at |-> 0, token |-> <<>>]

\* the clock moves on
Advance ==
    /\ \E t \in Instants : t > now /\ now' = t
    /\ UNCHANGED <<dbMode, courses, enrollments, issued, points, updates, req, resp, user>>

login ==
    \E email \in Emails, password \in Passwords :
        LET r == LoginResponse(email, password, now)
        IN  /\ req' = [endpoint |-> "login", at |-> now, email |-> email,
                       password |-> password]
            /\ resp' = r
            /\ issued' = IF r.status = 200
                         THEN [some |-> TRUE, email |-> email, at |-> now,
                               token |-> r.body.access_token]
                         ELSE issued
            /\ user' = None
            /\ UNCHANGED <<now, dbMode, courses, enrollments, points, updates>>

dashboard_summary ==
    \E h \in Presented :
        /\ req' = [endpoint |-> "summary", at |-> now, auth |-> h]
        /\ user' = get_current_user(h.creds, now)
        /\ resp' = SummaryResponse(_safe_count("course"), _safe_count("enrollment"))
        /\ UNCHANGED <<now, dbMode, courses, enrollments, issued, points, updates>>

get_courses ==
    /\ req' = [endpoint |-> "courses", at |-> now]
    /\ resp' = [endpoint |-> "courses", status |-> 200, body |-> CoursesBody]
    /\ user' = None
    /\ UNCHANGED <<now, dbMode, courses, enrollments, issued, points, updates>>

get_course ==
    \E course_id \in CourseIds :
        /\ req' = [endpoint |-> "course", at |-> now, course_id |-> course_id]
        /\ resp' = [endpoint |-> "course", status |-> 200, body |-> CourseBody(course_id)]
        /\ user' = None
        /\ UNCHANGED <<now, dbMode, courses, enrollments, issued, points, updates>>

get_creator_level ==
    \E creatorId \in CreatorIds :
        /\ req' = [endpoint |-> "level", at |-> now, creatorId |-> creatorId]
        /\ resp' = [endpoint |-> "level", status |-> 200,
                    body |-> [level |-> creator_level(points)]]
        /\ user' = None
        /\ UNCHANGED <<now, dbMode, courses, enrollments, issued, points, updates>>

get_progress_to_next_level ==
    \E creatorId \in CreatorIds :
        /\ req' = [endpoint |-> "progress", at |-> now, creatorId |-> creatorId]
        /\ resp' = [endpoint |-> "progress", status |-> 200,
                    body |-> progress_to_next_level(points)]
        /\ user' = None
        /\ UNCHANGED <<now, dbMode, courses, enrollments, issued, points, updates>>

\* an update handler that adds the delta to the point total
UpdatePersists(creatorId, pointsDelta) ==
    /\ req' = [endpoint |-> "update", at |-> now, creatorId |-> creatorId,
               pointsDelta |-> pointsDelta]
    /\ resp' = [endpoint |-> "update", status |-> 200,
                body |-> [status |-> "ok", creatorId |-> creatorId,
                          pointsAdded |-> pointsDelta]]
    /\ points' = points + pointsDelta
    /\ user' = None
    /\ updates' = updates + 1
    /\ UNCHANGED <<now, dbMode, courses, enrollments, issued>>

UpdateResponse(creatorId, pointsDelta) ==
    /\ req' = [endpoint |-> "update", at |-> now, creatorId |-> creatorId,
               pointsDelta |-> pointsDelta]
    /\ resp' = [endpoint |-> "update", status |-> 200,
                body |-> [status |-> "ok", creatorId |-> creatorId,
                          pointsAdded |-> pointsDelta]]
    /\ user' = None
    /\ updates' = updates + 1
    /\ UNCHANGED <<now, dbMode, courses, enrollments, issued, points>>

update_achievements ==
    /\ updates < MaxUpdates
    /\ \E creatorId \in CreatorIds \ {"<none>"}, pointsDelta \in Deltas :
           UpdateResponse(creatorId, pointsDelta)

(* --------------------------- specifications ---------------------------- *)

\* no store: the login and the bearer-token check over a running clock
InitAuth ==
    /\ now \in 0..Window
    /\ dbMode = "absent" /\ courses = <<>> /\ enrollments = 0
    /\ issued = NotIssued
    /\ points = HardCodedPoints /\ updates = 0
    /\ req = Idle /\ resp = Idle /\ user = None

NextAuth == Advance \/ login \/ dashboard_summary

SpecAuth == InitAuth /\ [][NextAuth]_vars

\* every store condition: the endpoints that read the store, and the login
InitStore ==
    /\ now = 0
    /\ dbMode \in {"absent", "raising", "ok"}
    /\ courses \in SeqsUpTo(Docs, MaxDocs)
    /\ enrollments \in EnrollCounts
    /\ dbMode = "absent" => courses = <<>> /\ enrollments = 0
    /\ issued = NotIssued
    /\ points = HardCodedPoints /\ updates = 0
    /\ req = Idle /\ resp = Idle /\ user = None

NextStore == login \/ dashboard_summary \/ get_courses \/ get_course

SpecStore == InitStore /\ [][NextStore]_vars

\* the achievement endpoints as the program has them
InitAch ==
    /\ now = 0
    /\ dbMode = "absent" /\ courses = <<>> /\ enrollments = 0
    /\ issued = NotIssued
    /\ points = HardCodedPoints /\ updates = 0
    /\ req = Idle /\ resp = Idle /\ user = None

NextAch == get_creator_level \/ get_progress_to_next_level \/ update_achievements

SpecAch == InitAch /\ [][NextAch]_vars

\* the level and progress computations with the point total a parameter
InitLevel ==
    /\ now = 0
    /\ dbMode = "absent" /\ courses = <<>> /\ enrollments = 0
    /\ issued = NotIssued
    /\ points \in (0 - BelowZero)..TopPoints /\ updates = 0
    /\ req = Idle /\ resp = Idle /\ user = None

NextLevel == get_creator_level \/ get_progress_to_next_level

SpecLevel == InitLevel /\ [][NextLevel]_vars

(* ------------------------------- claims -------------------------------- *)

\* C1: a login with an empty email or password is answered 400 and carries
\* no token; every login with both non-empty is answered 200 with an
\* access_token that splits on "::" into exactly 4 fields.
C1_LoginTokenHasFourFields ==
    req.endpoint = "login" =>
        IF req.email = <<>> \/ req.password = <<>>
        THEN resp.status = 400 /\ "access_token" \notin DOMAIN resp.body
        ELSE /\ resp.status = 200
             /\ Len(Split(resp.body.access_token, Delim)) = 4

\* C2, as stated: a presented token whose embedded expiry epoch lies
\* strictly before the current time yields no user, whatever its secret.
C2_ExpiredByClock ==
    (/\ req.endpoint = "summary"
     /\ req.auth.expiry.some
     /\ req.auth.expiry.val * TicksPerSec < req.at) => user = None

\* C2, amended: a presented token whose embedded expiry epoch lies strictly
\* before the current time truncated to whole seconds yields no user,
\* whatever its secret.
C2_ExpiredBySecond ==
    (/\ req.endpoint = "summary"
     /\ req.auth.expiry.some
     /\ req.auth.expiry.val < NowSec(req.at)) => user = None

C2_Witness ==
    /\ req.endpoint = "summary"
    /\ req.auth.source = "forged"
    /\ req.auth.secretOk
    /\ req.auth.expiry.val < NowSec(req.at)
    /\ user = None

\* C3: GET /courses answers exactly the demo courses c1, c2, c3 when the
\* store is absent, the query or the iteration raises, or there are no
\* documents; otherwise one item per stored document, in order.  Never a
\* partial list, never a mix.
C3_CoursesAllOrDemo ==
    resp.endpoint = "courses" =>
        LET body == resp.body
            fails == \/ dbMode \in {"absent", "raising"}
                     \/ \E i \in 1..Len(courses) : ~CourseItemValid(courses[i])
                     \/ courses = <<>>
        IN  /\ resp.status = 200
            /\ IF fails
               THEN /\ body = DemoCourses
                    /\ <<body[1].id, body[2].id, body[3].id>> = <<"c1", "c2", "c3">>
               ELSE /\ Len(body) = Len(courses)
                    /\ \A i \in 1..Len(body) : body[i].id = courses[i]._id

C3_Witness ==
    /\ resp.endpoint = "courses"
    /\ dbMode = "ok"
    /\ Len(courses) = 2
    /\ CourseItemValid(courses[1]) /\ ~CourseItemValid(courses[2])
    /\ resp.body = DemoCourses

\* C4: the only response that is an error is the 400 of a login with an
\* empty email or password; the summary, the course list and the single
\* course always answer 200, with 8 courses, 1240 enrollments, the demo
\* list and the default course when the lookup fails or finds nothing.
C4_OnlyLoginFails ==
    resp # Idle =>
        /\ resp.status \in {200, 400}
        /\ resp.status = 400 <=>
               (req.endpoint = "login" /\ (req.email = <<>> \/ req.password = <<>>))
        /\ resp.endpoint = "summary" =>
               /\ (dbMode # "ok" \/ courses = <<>>) => resp.body.totalCourses = 8
               /\ (dbMode # "ok" \/ enrollments = 0) => resp.body.totalEnrollments = 1240
        /\ resp.endpoint = "courses" =>
               ((dbMode # "ok" \/ courses = <<>>) => resp.body = DemoCourses)
        /\ resp.endpoint = "course" =>
               ((dbMode # "ok" \/ \A i \in 1..Len(courses) : courses[i]._id # req.course_id)
                    => resp.body = [id |-> req.course_id, title |-> "Course",
                                    category |-> "General"])

C4_Witness ==
    /\ dbMode = "raising"
    /\ courses # <<>>
    /\ resp.endpoint = "summary"
    /\ resp.status = 200
    /\ resp.body.totalCourses = 8
    /\ resp.body.totalEnrollments = 1240

\* the thresholds as the claims give them
ClaimedLevels == {<<0, "Bronze">>, <<2000, "Silver">>, <<5000, "Gold">>, <<10000, "Platinum">>}

LevelAt(t) == (CHOOSE e \in ClaimedLevels : e[1] = t)[2]

LevelRank(l) == CHOOSE k \in 1..4 : <<"Bronze", "Silver", "Gold", "Platinum">>[k] = l

ThresholdsAbove(p) == {e[1] : e \in {x \in ClaimedLevels : x[1] > p}}

Least(S) == CHOOSE x \in S : \A y \in S : x <= y

Greatest(S) == CHOOSE x \in S : \A y \in S : x >= y

\* C5: for every point total p >= 0 the level is that of the highest
\* threshold of {0, 2000, 5000, 10000} that is <= p; level(1860) = Bronze,
\* level(2000) = Silver, level(10000) = Platinum.
C5_LevelIsHighestThresholdMet ==
    (resp.endpoint = "level" /\ points >= 0) =>
        /\ resp.body.level =
               LevelAt(Greatest({e[1] : e \in {x \in ClaimedLevels : x[1] <= points}}))
        /\ points = 1860 => resp.body.level = "Bronze"
        /\ points = 2000 => resp.body.level = "Silver"
        /\ points = 10000 => resp.body.level = "Platinum"

C5_Witness ==
    /\ resp.endpoint = "level"
    /\ points = 10000
    /\ resp.body.level = "Platinum"

\* C6: for every point total p >= 0 progressPercent is 100 when no
\* threshold exceeds p, and otherwise min(100, p / nextThreshold * 100 to
\* 2 decimals) for the smallest threshold above p; it lies in [0, 100] and
\* is 93.0 at 1860.  (Percentages are in hundredths; "to 2 decimals" is
\* within half a hundredth of the exact quotient.)
C6_ProgressPercent ==
    (resp.endpoint = "progress" /\ points >= 0) =>
        LET pc == resp.body.progressPercent
            above == ThresholdsAbove(points)
            nt == Least(above)
            err == pc * nt - points * 100 * 100
        IN  /\ pc >= 0 /\ pc <= 10000
            /\ above = {} => pc = 10000
            /\ above # {} => /\ pc < 10000
                             /\ 2 * err <= nt /\ 2 * err >= 0 - nt
            /\ points = 1860 => pc = 9300

C6_Witness ==
    /\ resp.endpoint = "progress"
    /\ points = 1860
    /\ resp.body.progressPercent = 9300

\* C7: updates persist nothing: after any number of update requests the
\* level is Bronze and the progress is 1860 points, next level Silver,
\* 93.0 percent, as before them; each update response echoes the creatorId
\* and pointsDelta of its own request.
C7_UpdatePersistsNothing ==
    /\ points = 1860
    /\ resp.endpoint = "level" => resp.body = [level |-> "Bronze"]
    /\ resp.endpoint = "progress" =>
           resp.body = [points |-> 1860, nextLevel |-> "Silver", progressPercent |-> 9300]
    /\ resp.endpoint = "update" =>
           /\ resp.status = 200
           /\ resp.body.creatorId = req.creatorId
           /\ resp.body.pointsAdded = req.pointsDelta

C7_Witness ==
    /\ updates >= 2
    /\ resp.endpoint = "progress"
    /\ resp.body.nextLevel = "Silver"

\* C8: the token login issued for a non-empty email e at time t, presented
\* unmodified at any time up to and including t + 3600 s, yields e;
\* presented later it yields no user.
C8_TokenRoundTrip ==
    (req.endpoint = "summary" /\ req.auth.source = "issued") =>
        IF req.at <= req.auth.issuedAt + ExpiresIn * TicksPerSec
        THEN user = Some(req.auth.email)
        ELSE user = None

\* C9: for every integer point total p the reported nextLevel is the level
\* of the first threshold strictly above p, and never ranks at or below
\* the level computed for the same p, p >= 10000 included.
C9_NextLevelAboveLevel ==
    resp.endpoint = "progress" =>
        /\ ThresholdsAbove(points) # {} =>
               resp.body.nextLevel = LevelAt(Least(ThresholdsAbove(points)))
        /\ LevelRank(resp.body.nextLevel) > LevelRank(creator_level(points))

\* C10: in every summary response activeLearners is at most
\* totalEnrollments.
C10_ActiveWithinEnrollments ==
    (resp.endpoint = "summary" /\ resp.status = 200) =>
        resp.body.activeLearners <= resp.body.totalEnrollments

====
